---- MODULE Spec2Model ----
(***************************************************************************)
(* A model of the two command line tools of sqlite-ai-pubtools:            *)
(*   sqlitereports.py  CSV reports -> SQLite table "data", coercion of the *)
(*                     money columns, schema / sales / printcsv queries;   *)
(*   sqlitewiki.py     one article per (database, table): ingest, query,   *)
(*                     delete.                                             *)
(* Text is a sequence of one-character strings, so that REPLACE, CAST and  *)
(* the header normalisation work on characters as the code does.           *)
(***************************************************************************)
EXTENDS Integers, Sequences, FiniteSets, TLC

VARIABLES
    reports,      \* the reports directory: the CSV files in discovery order
    db,           \* table "data" as committed in the database file
    conn,         \* table "data" as seen by the open connection (uncommitted)
    pc,           \* "idle", or the position inside a running command
    csv_reader,   \* rows the running import has still to read
    column,       \* index of the column the running coercion is at
    cmd,          \* the command that ran last (or is running)
    err,          \* how it ended: "ok" or the exception raised
    out,          \* what the last query command printed
    coerced,      \* a coercion has been committed on the current table
    wiki,         \* article tables: (database, table) -> table
    wpc,          \* position inside a running ingest
    wargs,        \* arguments of the running (or last) article command
    werr,         \* how the last article command ended
    wout          \* what the last query printed

reportVars == <<reports, db, conn, pc, csv_reader, column, cmd, err, out, coerced>>
wikiVars == <<wiki, wpc, wargs, werr, wout>>
vars == <<reports, db, conn, pc, csv_reader, column, cmd, err, out, coerced,
          wiki, wpc, wargs, werr, wout>>

(***************************************************************************)
(* Text constants                                                          *)
(***************************************************************************)
Title == <<"T", "i", "t", "l", "e">>
CommissionEarnedRaw == <<"C", "o", "m", "m", "i", "s", "s", "i", "o", "n", " ", "E", "a", "r", "n", "e", "d">>
Commission_Earned == <<"C", "o", "m", "m", "i", "s", "s", "i", "o", "n", "_", "E", "a", "r", "n", "e", "d">>
Sales == <<"S", "a", "l", "e", "s">>
Widget == <<"W", "i", "d", "g", "e", "t">>
Gadget == <<"G", "a", "d", "g", "e", "t">>
Amt1200 == <<"$", "1", ",", "2", "0", "0", ".", "0", "0">>
Amt300 == <<"$", "3", "0", "0", ".", "5", "0">>
Amt5 == <<"$", "5", ".", "0", "0">>

(***************************************************************************)
(* SQLite values: TEXT and REAL.  A REAL is held as its decimal expansion  *)
(* 0.d1 d2 ... dn * 10^exp with d1 # 0 and dn # 0 (n = 0 for zero), which  *)
(* is exact for the decimals of at most 15 significant digits and for the  *)
(* integers below 2^53 that the inputs are drawn from.                     *)
(***************************************************************************)
Text(s) == [type |-> "text", v |-> s]

Zero == [neg |-> FALSE, digs |-> <<>>, exp |-> 0]

RealV(r) == [type |-> "real", v |-> r]

DigitChars == {"0", "1", "2", "3", "4", "5", "6", "7", "8", "9"}

DigitVal(c) ==
    CASE c = "0" -> 0 [] c = "1" -> 1 [] c = "2" -> 2 [] c = "3" -> 3
      [] c = "4" -> 4 [] c = "5" -> 5 [] c = "6" -> 6 [] c = "7" -> 7
      [] c = "8" -> 8 [] c = "9" -> 9

DigitChar(d) == <<"0", "1", "2", "3", "4", "5", "6", "7", "8", "9">>[d + 1]

RECURSIVE LeadingZeros(_)
LeadingZeros(ds) ==
    IF ds = <<>> \/ Head(ds) # 0 THEN 0 ELSE 1 + LeadingZeros(Tail(ds))

RECURSIVE StripTrailingZeros(_)
StripTrailingZeros(ds) ==
    IF ds = <<>> \/ ds[Len(ds)] # 0 THEN ds
    ELSE StripTrailingZeros(SubSeq(ds, 1, Len(ds) - 1))

\* the REAL 0.ds * 10^point, in canonical form
MkReal(neg, ds, point) ==
    LET lead == LeadingZeros(ds)
        sig == StripTrailingZeros(SubSeq(ds, lead + 1, Len(ds)))
    IN  IF sig = <<>> THEN Zero
        ELSE [neg |-> neg, digs |-> sig, exp |-> point - lead]

\* length of the run of decimal digits of s that starts at position i
RECURSIVE DigitRun(_, _)
DigitRun(s, i) ==
    IF i > Len(s) \/ s[i] \notin DigitChars THEN 0 ELSE 1 + DigitRun(s, i + 1)

RECURSIVE SpaceRun(_, _)
SpaceRun(s, i) ==
    IF i > Len(s) \/ s[i] # " " THEN 0 ELSE 1 + SpaceRun(s, i + 1)

DigitsOf(s, i, n) == [k \in 1..n |-> DigitVal(s[i + k - 1])]

RECURSIVE NatOf(_)
NatOf(ds) ==
    IF ds = <<>> THEN 0 ELSE 10 * NatOf(SubSeq(ds, 1, Len(ds) - 1)) + ds[Len(ds)]

\* CAST(text AS FLOAT): the longest numeric prefix of the text, 0.0 when there
\* is none; the cast never raises
AtoF(s) ==
    LET p0 == 1 + SpaceRun(s, 1)
        hasSign == p0 <= Len(s) /\ s[p0] \in {"+", "-"}
        neg == hasSign /\ s[p0] = "-"
        p1 == IF hasSign THEN p0 + 1 ELSE p0
        ni == DigitRun(s, p1)
        p2 == p1 + ni
        hasDot == p2 <= Len(s) /\ s[p2] = "."
        nf == IF hasDot THEN DigitRun(s, p2 + 1) ELSE 0
        p3 == IF hasDot THEN p2 + 1 + nf ELSE p2
        hasE == p3 <= Len(s) /\ s[p3] \in {"e", "E"}
        eSign == hasE /\ p3 + 1 <= Len(s) /\ s[p3 + 1] \in {"+", "-"}
        p4 == IF eSign THEN p3 + 2 ELSE p3 + 1
        ne == IF hasE THEN DigitRun(s, p4) ELSE 0
        e == IF ne = 0 THEN 0
             ELSE IF eSign /\ s[p3 + 1] = "-" THEN 0 - NatOf(DigitsOf(s, p4, ne))
             ELSE NatOf(DigitsOf(s, p4, ne))
        ds == DigitsOf(s, p1, ni) \o (IF hasDot THEN DigitsOf(s, p2 + 1, nf) ELSE <<>>)
    IN  IF ni + nf = 0 THEN Zero ELSE MkReal(neg, ds, ni + e)

\* significant digits SQLite keeps when it renders a REAL as text ("%!.15g")
SigDigits == 15

\* ds + 1 in the last place; a carry out of the first place is the result's
\* first element
RECURSIVE Increment(_)
Increment(ds) ==
    IF ds = <<>> THEN <<1>>
    ELSE IF ds[Len(ds)] < 9 THEN [ds EXCEPT ![Len(ds)] = @ + 1]
    ELSE Increment(SubSeq(ds, 1, Len(ds) - 1)) \o <<0>>

\* r rounded to SigDigits significant digits
RoundSig(r) ==
    IF Len(r.digs) <= SigDigits THEN r
    ELSE LET head == SubSeq(r.digs, 1, SigDigits)
             up == r.digs[SigDigits + 1] >= 5
             inc == Increment(head)
         IN  IF ~up THEN MkReal(r.neg, head, r.exp)
             ELSE IF Len(inc) > SigDigits THEN MkReal(r.neg, inc, r.exp + 1)
             ELSE MkReal(r.neg, inc, r.exp)

Chars(ds) == [k \in 1..Len(ds) |-> DigitChar(ds[k])]

Zeros(n) == [k \in 1..n |-> "0"]

RECURSIVE NatDigits(_)
NatDigits(n) == IF n < 10 THEN <<n>> ELSE NatDigits(n \div 10) \o <<n % 10>>

\* the text SQLite renders a REAL as: at most SigDigits significant digits,
\* always a decimal point, exponent form outside 1e-4 .. 1e15
RealToText(r0) ==
    LET r == RoundSig(r0)
        n == Len(r.digs)
        x == r.exp - 1
        sign == IF r.neg THEN <<"-">> ELSE <<>>
        ax == IF x < 0 THEN 0 - x ELSE x
        ed == NatDigits(ax)
        body ==
            IF x < 0 - 4 \/ x >= SigDigits THEN
                <<DigitChar(r.digs[1]), ".">>
                \o (IF n = 1 THEN <<"0">> ELSE Chars(SubSeq(r.digs, 2, n)))
                \o <<"e", IF x < 0 THEN "-" ELSE "+">>
                \o (IF Len(ed) = 1 THEN <<"0">> ELSE <<>>) \o Chars(ed)
            ELSE IF x < 0 THEN
                <<"0", ".">> \o Zeros(ax - 1) \o Chars(r.digs)
            ELSE IF n <= x + 1 THEN
                Chars(r.digs) \o Zeros(x + 1 - n) \o <<".", "0">>
            ELSE
                Chars(SubSeq(r.digs, 1, x + 1)) \o <<".">>
                \o Chars(SubSeq(r.digs, x + 2, n))
    IN  IF n = 0 THEN <<"0", ".", "0">> ELSE sign \o body

\* a value as the text a string function sees
ToText(x) == IF x.type = "real" THEN RealToText(x.v) ELSE x.v

\* REPLACE(x, ch, ''): every occurrence of the character removed; the result
\* is TEXT, also when x was a REAL
SqlReplace(x, ch) == Text(SelectSeq(ToText(x), LAMBDA c : c # ch))

\* characters a number is written with
NumericChars == DigitChars \cup {".", "+", "-", "e", "E"}

\* variant: a cast that leaves a text with a foreign character as it is
SqlCastFloatStrict(x) ==
    IF x.type = "real" THEN x
    ELSE IF \E k \in 1..Len(x.v) : x.v[k] \notin NumericChars THEN x
    ELSE RealV(AtoF(x.v))

\* CAST(x AS FLOAT)
SqlCastFloat(x) == IF x.type = "real" THEN x ELSE RealV(AtoF(x.v))

(***************************************************************************)
(* Comparison of values, as ORDER BY compares them: every REAL sorts       *)
(* before every TEXT; TEXT compares character by character (BINARY).       *)
(***************************************************************************)
AsciiOrder ==
    <<" ", "$", "+", ",", "-", ".", "0", "1", "2", "3", "4", "5", "6", "7", "8",
    "9", "A", "B", "C", "D", "E", "F", "G", "H", "I", "J", "K", "L", "M", "N",
    "O", "P", "Q", "R", "S", "T", "U", "V", "W", "X", "Y", "Z", "_", "a", "b",
    "c", "d", "e", "f", "g", "h", "i", "j", "k", "l", "m", "n", "o", "p", "q",
    "r", "s", "t", "u", "v", "w", "x", "y", "z">>

Ord(c) == CHOOSE i \in 1..Len(AsciiOrder) : AsciiOrder[i] = c

\* a < b, element by element; a proper prefix is smaller
RECURSIVE DigitsLess(_, _)
DigitsLess(a, b) ==
    IF b = <<>> THEN FALSE
    ELSE IF a = <<>> THEN TRUE
    ELSE IF Head(a) # Head(b) THEN Head(a) < Head(b)
    ELSE DigitsLess(Tail(a), Tail(b))

TextLess(a, b) == DigitsLess([k \in 1..Len(a) |-> Ord(a[k])], [k \in 1..Len(b) |-> Ord(b[k])])

\* a < b for two positive REALs in canonical form
MagLess(a, b) ==
    IF a.exp # b.exp THEN a.exp < b.exp ELSE DigitsLess(a.digs, b.digs)

RealLess(a, b) ==
    IF a = Zero THEN b # Zero /\ ~b.neg
    ELSE IF b = Zero THEN a.neg
    ELSE IF a.neg # b.neg THEN a.neg
    ELSE IF a.neg THEN MagLess(b, a)
    ELSE MagLess(a, b)

ValueLess(x, y) ==
    IF x.type # y.type THEN x.type = "real"
    ELSE IF x.type = "real" THEN RealLess(x.v, y.v)
    ELSE TextLess(x.v, y.v)

(***************************************************************************)
(* sqlitereports.py                                                        *)
(***************************************************************************)
\* the table "data": absent, or its columns and rows
NoTable == [exists |-> FALSE, cols |-> <<>>, rows |-> <<>>]

NoOutput == [cmd |-> "none", val |-> <<>>]

\* the columns convert_dollar_amount_to_float coerces by default
columns == <<Commission_Earned, Sales>>

\* rows a report file may hold
HeaderRows == {<<Title, CommissionEarnedRaw>>, <<Title, CommissionEarnedRaw, Sales>>}

\* rows behind the first: data of two and of three fields, the header of a
\* further file, an empty line
DataRows ==
    { <<Widget, Amt1200>>, <<Gadget, Amt300>>, <<Widget, Amt1200, Amt5>>,
      <<Title, CommissionEarnedRaw, Sales>>, <<>> }

\* most rows after the header row in the directory
MaxData == 3

\* most files in the directory
MaxFiles == 2

SeqsUpTo(S, n) == UNION {[1..k -> S] : k \in 0..n}

\* the ways to cut the rows rs into at most n non-empty files, in order
RECURSIVE Splits(_, _)
Splits(rs, n) ==
    IF rs = <<>> THEN {<<>>}
    ELSE IF n = 1 THEN {<<rs>>}
    ELSE {<<rs>>} \cup
         UNION { { <<SubSeq(rs, 1, k)>> \o rest :
                     rest \in Splits(SubSeq(rs, k + 1, Len(rs)), n - 1) } :
                 k \in 1..(Len(rs) - 1) }

\* the directories: no file at all, or files whose first row is a header
IsDir(dir) ==
    \/ dir = <<>>
    \/ \E h \in HeaderRows, t \in SeqsUpTo(DataRows, MaxData) :
          dir \in Splits(<<h>> \o t, MaxFiles)

\* get_csv_files: the files of the directory, in discovery order
get_csv_files(dir) == dir

convert_header_name(header_name) ==
    [k \in 1..Len(header_name) |->
        IF header_name[k] = " " THEN "_" ELSE header_name[k]]

\* bytes of the line csv.writer writes for a row: fields joined by commas, a
\* field that holds a comma quoted, CRLF at the end
RECURSIVE LineSize(_)
LineSize(row) ==
    IF row = <<>> THEN 2
    ELSE Len(Head(row))
         + (IF \E k \in 1..Len(Head(row)) : Head(row)[k] = "," THEN 2 ELSE 0)
         + (IF Len(row) > 1 THEN 1 ELSE 0)
         + LineSize(Tail(row))

\* bytes the text layer of the temporary file collects before it passes them
\* on (8192 in the run time, scaled by 1/128)
ChunkSize == 64

\* bytes the binary layer of the temporary file holds back (4096, scaled alike)
BufferSize == 32

\* the temporary file while it is written: rows pending in the text layer,
\* rows held in the binary layer's buffer, rows that reached the file
NewFile == [pending |-> <<>>, pcount |-> 0, buffer |-> <<>>, bcount |-> 0, disk |-> <<>>]

BufferedWrite(w, rows, n) ==
    IF n <= BufferSize - w.bcount
    THEN [w EXCEPT !.buffer = @ \o rows, !.bcount = @ + n]
    ELSE IF n > BufferSize
    THEN [w EXCEPT !.disk = @ \o w.buffer \o rows, !.buffer = <<>>, !.bcount = 0]
    ELSE [w EXCEPT !.disk = @ \o w.buffer, !.buffer = rows, !.bcount = n]

TextFlush(w) ==
    BufferedWrite([w EXCEPT !.pending = <<>>, !.pcount = 0], w.pending, w.pcount)

\* csv_writer.writerow(row): one write of the row's line to the text layer
writerow(w, row) ==
    LET n == LineSize(row)
        w1 == IF w.pending # <<>> /\ w.pcount + n > ChunkSize THEN TextFlush(w) ELSE w
        w2 == [w1 EXCEPT !.pending = Append(@, row), !.pcount = @ + n]
    IN  IF w2.pcount >= ChunkSize THEN TextFlush(w2) ELSE w2

RECURSIVE WriteRows(_, _)
WriteRows(w, rows) ==
    IF rows = <<>> THEN w ELSE WriteRows(writerow(w, Head(rows)), Tail(rows))

RECURSIVE WriteFiles(_, _)
WriteFiles(w, files) ==
    IF files = <<>> THEN w ELSE WriteFiles(WriteRows(w, Head(files)), Tail(files))

\* get_combined_csv_file: every row of every file written to one temporary
\* file, which is returned still open and never flushed
get_combined_csv_file(dir) == WriteFiles(NewFile, get_csv_files(dir))

\* open(combined_csv_file.name): the rows a reader finds in the file
ReadBack(combined_csv_file) == combined_csv_file.disk

\* ','.join(header)
RECURSIVE JoinCommas(_)
JoinCommas(tokens) ==
    IF tokens = <<>> THEN <<>>
    ELSE IF Len(tokens) = 1 THEN Head(tokens)
    ELSE Head(tokens) \o <<",">> \o JoinCommas(Tail(tokens))

\* the pieces of a text between its commas
RECURSIVE SplitCommas(_)
SplitCommas(text) ==
    IF \A k \in 1..Len(text) : text[k] # "," THEN <<text>>
    ELSE LET k == CHOOSE i \in 1..Len(text) :
                      text[i] = "," /\ \A j \in 1..(i - 1) : text[j] # ","
         IN  <<SubSeq(text, 1, k - 1)>> \o SplitCommas(SubSeq(text, k + 1, Len(text)))

CreateTablePrefix == <<"C", "R", "E", "A", "T", "E", " ", "T", "A", "B", "L", "E", " ", "d", "a", "t", "a", " ", "(">>

\* the statement import_csv_to_sqlite builds for the header
CreateTableSql(header) == CreateTablePrefix \o JoinCommas(header) \o <<")">>

\* the column list of a CREATE TABLE data (...) statement
ColumnList(sql) ==
    SplitCommas(SubSeq(sql, Len(CreateTablePrefix) + 1, Len(sql) - 1))

\* variant: a creation that never fails (the table dropped first)
CreateTableNeverFails(table) == FALSE

\* CREATE TABLE has no IF NOT EXISTS and nothing drops the table first
CreateTableFails(table) == table.exists

\* the table the statement creates: one untyped column per piece of the list
CreateTable(header) ==
    [exists |-> TRUE, cols |-> ColumnList(CreateTableSql(header)), rows |-> <<>>]

\* INSERT INTO data VALUES (?,...,?) with one parameter per field of the row
InsertFails(table, row) == Len(row) = 0 \/ Len(row) # Len(table.cols)

Insert(table, row) ==
    [table EXCEPT !.rows = Append(@, [k \in 1..Len(row) |-> Text(row[k])])]

\* variant: the header row read again by the insert loop
RowsAfterHeaderWithHeader(stream) == stream

\* next(csv_reader) took the header: the loop reads the rows behind it
RowsAfterHeader(stream) == Tail(stream)

\* variant: every statement committed as it is executed
RollbackKeepingWork(committed, working) == working

\* the committed table after a connection is dropped without commit: what
\* the connection did since its last commit is lost
Rollback(committed, working) == committed

HasColumn(table, name) == \E k \in 1..Len(table.cols) : table.cols[k] = name

ColumnIndex(table, name) == CHOOSE k \in 1..Len(table.cols) : table.cols[k] = name

\* variant: the decimal point taken out in place of the thousands separator
CoerceValueDroppingPoint(x) == SqlCastFloat(SqlReplace(SqlReplace(x, "$"), "."))

\* the three UPDATE statements of convert_dollar_amount_to_float on one value
CoerceValue(x) == SqlCastFloat(SqlReplace(SqlReplace(x, "$"), ","))

CoerceColumn(table, name) ==
    LET j == ColumnIndex(table, name)
    IN  [table EXCEPT !.rows = [i \in 1..Len(@) |-> [@[i] EXCEPT ![j] = CoerceValue(@)]]]

\* most committed coercions of one table that are followed
MaxRuns == 2

StopIteration == "StopIteration"
TableExists == "OperationalError: table data already exists"
SyntaxError == "OperationalError: syntax error"
ValueCount == "OperationalError: values supplied do not match the columns"
NoSuchColumn == "OperationalError: no such column"
NoSuchTable == "OperationalError: no such table: data"

\* import_csv_to_sqlite up to CREATE TABLE: the combined file is read back,
\* its first row is the header, the table is created (and stays created:
\* the statement is not part of a transaction)
import_begin ==
    /\ pc = "idle"
    /\ cmd' = "import"
    /\ LET stream == ReadBack(get_combined_csv_file(reports))
           header == [k \in 1..Len(Head(stream)) |-> convert_header_name(Head(stream)[k])]
       IN  IF stream = <<>>
           THEN /\ err' = StopIteration
                /\ UNCHANGED <<db, conn, pc, csv_reader, coerced>>
           ELSE IF CreateTableFails(db)
           THEN /\ err' = TableExists
                /\ UNCHANGED <<db, conn, pc, csv_reader, coerced>>
           ELSE IF header = <<>>
           THEN /\ err' = SyntaxError
                /\ UNCHANGED <<db, conn, pc, csv_reader, coerced>>
           ELSE /\ db' = CreateTable(header)
                /\ conn' = db'
                /\ pc' = "insert"
                /\ csv_reader' = RowsAfterHeader(stream)
                /\ err' = "none"
                /\ coerced' = 0
    /\ UNCHANGED <<reports, column, out>>
    /\ UNCHANGED wikiVars

\* one turn of the insert loop; a failing INSERT ends the command before the
\* commit
import_insert ==
    /\ pc = "insert"
    /\ csv_reader # <<>>
    /\ csv_reader' = Tail(csv_reader)
    /\ IF InsertFails(conn, Head(csv_reader))
       THEN /\ err' = (IF Head(csv_reader) = <<>> THEN SyntaxError ELSE ValueCount)
            /\ db' = Rollback(db, conn)
            /\ conn' = db'
            /\ pc' = "idle"
       ELSE /\ conn' = Insert(conn, Head(csv_reader))
            /\ UNCHANGED <<db, pc, err>>
    /\ UNCHANGED <<reports, column, cmd, out, coerced>>
    /\ UNCHANGED wikiVars

\* the single commit after the last insert, then the call of
\* convert_dollar_amount_to_float
import_commit ==
    /\ pc = "insert"
    /\ csv_reader = <<>>
    /\ db' = conn
    /\ pc' = "coerce"
    /\ column' = 1
    /\ UNCHANGED <<reports, conn, csv_reader, cmd, err, out, coerced>>
    /\ UNCHANGED wikiVars

\* convert_dollar_amount_to_float called on its own
convert_call ==
    /\ pc = "idle"
    /\ coerced < MaxRuns
    /\ cmd' = "convert"
    /\ err' = "none"
    /\ pc' = "coerce"
    /\ column' = 1
    /\ conn' = db
    /\ UNCHANGED <<reports, db, csv_reader, out, coerced>>
    /\ UNCHANGED wikiVars

\* one turn of the loop over the columns: three UPDATE statements
convert_column ==
    /\ pc = "coerce"
    /\ column <= Len(columns)
    /\ IF ~conn.exists \/ ~HasColumn(conn, columns[column])
       THEN /\ err' = (IF conn.exists THEN NoSuchColumn ELSE NoSuchTable)
            /\ db' = Rollback(db, conn)
            /\ conn' = db'
            /\ pc' = "idle"
            /\ UNCHANGED column
       ELSE /\ conn' = CoerceColumn(conn, columns[column])
            /\ column' = column + 1
            /\ UNCHANGED <<db, pc, err>>
    /\ UNCHANGED <<reports, csv_reader, cmd, out, coerced>>
    /\ UNCHANGED wikiVars

convert_commit ==
    /\ pc = "coerce"
    /\ column > Len(columns)
    /\ db' = conn
    /\ pc' = "idle"
    /\ err' = "ok"
    /\ coerced' = (IF coerced < MaxRuns THEN coerced + 1 ELSE coerced)
    /\ UNCHANGED <<reports, conn, csv_reader, column, cmd, out>>
    /\ UNCHANGED wikiVars

\* SELECT sql FROM sqlite_master WHERE type='table'
get_schema(table) == IF table.exists THEN <<CreateTableSql(table.cols)>> ELSE <<>>

schemacli ==
    /\ pc = "idle"
    /\ cmd' = "schema"
    /\ err' = "ok"
    /\ out' = [cmd |-> "schema", val |-> get_schema(db)]
    /\ UNCHANGED <<reports, db, conn, csv_reader, column, coerced, pc>>
    /\ UNCHANGED wikiVars

\* r put into a sequence sorted in descending order of the metric, behind
\* the pairs that do not sort below it
RECURSIVE InsertDesc(_, _)
InsertDesc(sorted, r) ==
    IF sorted = <<>> THEN <<r>>
    ELSE IF ValueLess(Head(sorted)[2], r[2]) THEN <<r>> \o sorted
    ELSE <<Head(sorted)>> \o InsertDesc(Tail(sorted), r)

RECURSIVE OrderByDesc(_)
OrderByDesc(pairs) ==
    IF pairs = <<>> THEN <<>>
    ELSE InsertDesc(OrderByDesc(SubSeq(pairs, 1, Len(pairs) - 1)), pairs[Len(pairs)])

\* SELECT Title, Commission_Earned FROM data ORDER BY Commission_Earned DESC LIMIT limit
get_top_revenue_generating_products(table, limit) ==
    LET t == ColumnIndex(table, Title)
        c == ColumnIndex(table, Commission_Earned)
        sorted == OrderByDesc([i \in 1..Len(table.rows) |-> <<table.rows[i][t], table.rows[i][c]>>])
    IN  SubSeq(sorted, 1, IF limit < Len(sorted) THEN limit ELSE Len(sorted))

DefaultLimit == 10

\* the values of --limit that are tried: one row, and the default
Limits == {1, DefaultLimit}

sales(limit) ==
    /\ pc = "idle"
    /\ cmd' = "sales"
    /\ IF ~db.exists
       THEN err' = NoSuchTable /\ UNCHANGED out
       ELSE IF ~HasColumn(db, Title) \/ ~HasColumn(db, Commission_Earned)
       THEN err' = NoSuchColumn /\ UNCHANGED out
       ELSE /\ err' = "ok"
            /\ out' = [cmd |-> "sales", val |-> get_top_revenue_generating_products(db, limit)]
    /\ UNCHANGED <<reports, db, conn, csv_reader, column, coerced, pc>>
    /\ UNCHANGED wikiVars

\* printcsv: every row the combined file yields, the first one included
print_csv ==
    /\ pc = "idle"
    /\ cmd' = "printcsv"
    /\ err' = "ok"
    /\ out' = [cmd |-> "printcsv", val |-> ReadBack(get_combined_csv_file(reports))]
    /\ UNCHANGED <<reports, db, conn, csv_reader, column, coerced, pc>>
    /\ UNCHANGED wikiVars

\* the environment: the CSV files are taken out of the reports directory
remove_reports ==
    /\ pc = "idle"
    /\ reports # <<>>
    /\ reports' = <<>>
    /\ UNCHANGED <<db, conn, pc, csv_reader, column, cmd, err, out, coerced>>
    /\ UNCHANGED wikiVars

(***************************************************************************)
(* Tables the coercion is studied on by itself: one row, money columns     *)
(* holding the texts an import can leave there                             *)
(***************************************************************************)
Digits16 == <<"1", "2", "3", "4", "5", "6", "7", "8", "9", "0", "1", "2", "3", "4", "5", "6">>
Residue12abc == <<"1", "2", "a", "b", "c">>
Small == <<"0", ".", "0", "0", "0", "0", "1", "2">>
Negative == <<"-", "5">>
Exponent == <<"1", "e", "1", "5">>
TwoSymbols == <<"$", "$", "7">>
NoInteger == <<".", "5">>

CoercePool ==
    { Amt1200, Amt300, CommissionEarnedRaw, <<>>, Digits16, Residue12abc, Small,
      Negative, Exponent, TwoSymbols, NoInteger }

CoerceTables ==
    { [exists |-> TRUE, cols |-> <<Title, Commission_Earned, Sales>>,
       rows |-> <<<<Text(Widget), Text(a), Text(b)>>>>] : a \in CoercePool, b \in CoercePool }
    \cup
    { [exists |-> TRUE, cols |-> <<Title, Commission_Earned>>,
       rows |-> <<<<Text(Widget), Text(a)>>>>] : a \in CoercePool }

(***************************************************************************)
(* sqlitewiki.py                                                           *)
(***************************************************************************)
DbNames == {"wiki.db", "notes.db"}

TableNames == {"wiki", "cats"}

Titles == {"Python (programming language)", "Cat"}

\* the text of the page the encyclopedia holds under a title
Content(page_title) == <<"content of", page_title>>

NoArticles == [exists |-> FALSE, rows |-> <<>>]

NoArgs == [cmd |-> "none", page_title |-> "", db_name |-> "", table_name |-> ""]

\* variant: CREATE TABLE that never fails
create_db_never_fails(table) == FALSE

\* CREATE TABLE {tn} (content TEXT), no IF NOT EXISTS
create_db_fails(table) == table.exists

create_db(tables, db_name, table_name) ==
    [tables EXCEPT ![db_name, table_name] = [exists |-> TRUE, rows |-> <<>>]]

insert_content(tables, db_name, table_name, content) ==
    [tables EXCEPT ![db_name, table_name].rows = Append(@, content)]

\* SELECT content FROM {tn}, fetchone(): the first row, None when there is none
query_db(tables, db_name, table_name) ==
    IF tables[db_name, table_name].rows = <<>> THEN "None"
    ELSE Head(tables[db_name, table_name].rows)

\* delete_db has no table_name: building the DROP TABLE statement raises
\* NameError before anything is executed
delete_db(tables, db_name) == tables

\* ingest, first call: create_db
ingest_create(page_title, db_name, table_name) ==
    /\ wpc = "idle"
    /\ wargs' = [cmd |-> "ingest", page_title |-> page_title,
                 db_name |-> db_name, table_name |-> table_name]
    /\ IF create_db_fails(wiki[db_name, table_name])
       THEN /\ werr' = "OperationalError: table already exists"
            /\ UNCHANGED <<wiki, wpc>>
       ELSE /\ wiki' = create_db(wiki, db_name, table_name)
            /\ wpc' = "insert"
            /\ werr' = "none"
    /\ UNCHANGED wout
    /\ UNCHANGED reportVars

\* ingest, second call: insert_content fetches the page, then inserts it
ingest_insert ==
    /\ wpc = "insert"
    /\ wpc' = "idle"
    /\ \E fetched \in BOOLEAN :
          IF fetched
          THEN /\ wiki' = insert_content(wiki, wargs.db_name, wargs.table_name,
                                         Content(wargs.page_title))
               /\ werr' = "ok"
          ELSE /\ werr' = "PageError"
               /\ UNCHANGED wiki
    /\ UNCHANGED <<wargs, wout>>
    /\ UNCHANGED reportVars

query(db_name, table_name) ==
    /\ wpc = "idle"
    /\ wargs' = [cmd |-> "query", page_title |-> "",
                 db_name |-> db_name, table_name |-> table_name]
    /\ IF ~wiki[db_name, table_name].exists
       THEN werr' = "OperationalError: no such table" /\ UNCHANGED wout
       ELSE werr' = "ok" /\ wout' = query_db(wiki, db_name, table_name)
    /\ UNCHANGED <<wiki, wpc>>
    /\ UNCHANGED reportVars

delete(db_name, table_name) ==
    /\ wpc = "idle"
    /\ wargs' = [cmd |-> "delete", page_title |-> "",
                 db_name |-> db_name, table_name |-> table_name]
    /\ wiki' = delete_db(wiki, db_name)
    /\ werr' = "NameError: name 'table_name' is not defined"
    /\ UNCHANGED <<wpc, wout>>
    /\ UNCHANGED reportVars

(***************************************************************************)
(* Specifications                                                          *)
(***************************************************************************)
InitWikiVars ==
    /\ wiki = [p \in DbNames \X TableNames |-> NoArticles]
    /\ wpc = "idle"
    /\ wargs = NoArgs
    /\ werr = "none"
    /\ wout = "none"

InitReportVars ==
    /\ conn = db
    /\ pc = "idle"
    /\ csv_reader = <<>>
    /\ column = 1
    /\ cmd = "none"
    /\ err = "none"
    /\ out = NoOutput
    /\ coerced = 0

\* the report tool: some reports directory, a fresh database
Init ==
    /\ IsDir(reports)
    /\ db = NoTable
    /\ InitReportVars
    /\ InitWikiVars

Next ==
    \/ import_begin
    \/ import_insert
    \/ import_commit
    \/ convert_column
    \/ convert_commit
    \/ schemacli
    \/ \E limit \in Limits : sales(limit)
    \/ print_csv
    \/ remove_reports

Spec == Init /\ [][Next]_vars

\* convert_dollar_amount_to_float by itself, on a loaded table
InitCoerce ==
    /\ reports = <<>>
    /\ db \in CoerceTables
    /\ InitReportVars
    /\ InitWikiVars

NextCoerce ==
    \/ convert_call
    \/ convert_column
    \/ convert_commit

SpecCoerce == InitCoerce /\ [][NextCoerce]_vars

\* the article tool
InitWiki ==
    /\ reports = <<>>
    /\ db = NoTable
    /\ InitReportVars
    /\ InitWikiVars

NextWiki ==
    \/ \E t \in Titles, d \in DbNames, n \in TableNames : ingest_create(t, d, n)
    \/ ingest_insert
    \/ \E d \in DbNames, n \in TableNames : query(d, n)
    \/ \E d \in DbNames, n \in TableNames : delete(d, n)

SpecWiki == InitWiki /\ [][NextWiki]_vars

(***************************************************************************)
(* Properties                                                              *)
(***************************************************************************)
\* every row of every file, in file-then-row order
RECURSIVE Flatten(_)
Flatten(dir) == IF dir = <<>> THEN <<>> ELSE Head(dir) \o Flatten(Tail(dir))

\* a header row with every space of every token replaced by an underscore
Underscored(row) ==
    [k \in 1..Len(row) |-> [i \in 1..Len(row[k]) |-> IF row[k][i] = " " THEN "_" ELSE row[k][i]]]

\* the rows the last import found in the combined file
ImportStream == ReadBack(get_combined_csv_file(reports))

ImportFailedOnRow == pc = "idle" /\ cmd = "import" /\ err \in {ValueCount, SyntaxError}

\* C1: while the insert loop runs nothing but the empty table is committed,
\* and a row whose number of fields differs from the number of columns ends
\* the import with an error, the table committed without any row: the rows
\* inserted before the failing one are discarded.
C1_MismatchAbortsWithoutRows ==
    [][ pc = "insert" =>
          /\ db.exists /\ db.rows = <<>>
          /\ (csv_reader # <<>> /\ Len(Head(csv_reader)) # Len(db.cols)) =>
                /\ pc' = "idle"
                /\ err' \in {ValueCount, SyntaxError}
                /\ db'.exists /\ db'.rows = <<>>
                /\ conn' = db' ]_vars

\* C1 witness: an import failed on a row after it had inserted at least one
\* row, and the table is there without rows.
C1_Witness ==
    /\ ImportFailedOnRow
    /\ reports # <<>>
    /\ Len(ImportStream) - Len(csv_reader) >= 3
    /\ db.exists /\ db.rows = <<>>

\* C2 as stated: an import on a database that already holds table data fails
\* with the table-already-exists error of the table creation.
C2_SecondImportFailsAtCreation ==
    [][ (import_begin /\ db.exists) => err' = TableExists ]_vars

\* C2 amended: an import on a database that already holds table data inserts
\* nothing and leaves the table as it was; it fails with table-already-exists
\* when the combined file yields a header row, and with StopIteration at the
\* header read, before the table creation, when the file yields no row.
C2_SecondImportFailsBeforeInsert ==
    [][ (import_begin /\ db.exists) =>
          /\ pc' = "idle"
          /\ db' = db
          /\ err' = (IF ImportStream = <<>> THEN StopIteration ELSE TableExists) ]_vars

\* C2 witness: a second import has failed with table-already-exists on a
\* table the first one created.
C2_Witness ==
    /\ pc = "idle" /\ cmd = "import" /\ err = TableExists
    /\ db.exists

\* C3: schema run after an import on a fresh database, for a directory that
\* holds files, prints exactly one table definition whose column list is the
\* underscored header of the first row of the first file.
C3_SchemaAfterImport ==
    [][ (pc = "idle" /\ cmd = "import" /\ err # TableExists /\ reports # <<>> /\ schemacli) =>
          /\ Len(out'.val) = 1
          /\ ColumnList(out'.val[1]) = Underscored(reports[1][1]) ]_vars

ImportSucceededAfterPrint ==
    pc = "idle" /\ cmd = "import" /\ err = "ok" /\ out.cmd = "printcsv"

\* C4 as stated: after a successful import, table data has as many rows as
\* printcsv printed before the import.
C4_RowCountPreserved == ImportSucceededAfterPrint => Len(out.val) = Len(db.rows)

\* C4 amended: after a successful import, printcsv has printed one row more
\* than table data holds: printcsv prints the header row too.
C4_RowCountPlusHeader == ImportSucceededAfterPrint => Len(out.val) = Len(db.rows) + 1

\* C4 witness: a successful import that loaded a row, after a printcsv.
C4_Witness == ImportSucceededAfterPrint /\ Len(db.rows) >= 1

\* C5: what printcsv and the import read back from the combined file is
\* every row of every file, in file-then-row order; the import takes the
\* first as the header and inserts all the others.
C5_CombinedStreamComplete ==
    /\ (out.cmd = "printcsv" /\ reports # <<>>) => out.val = Flatten(reports)
    /\ (pc = "insert" /\ reports # <<>>) =>
          [i \in 1..Len(conn.rows) |-> [k \in 1..Len(conn.rows[i]) |-> conn.rows[i][k].v]]
              \o csv_reader = Tail(Flatten(reports))

\* the directory of the scenario: one file, header Title,Commission Earned
ScenarioDir == << << <<Title, CommissionEarnedRaw>>, <<Widget, Amt1200>>, <<Gadget, Amt300>> >> >>

Real1200 == RealV([neg |-> FALSE, digs |-> <<1, 2>>, exp |-> 4])

Real300_5 == RealV([neg |-> FALSE, digs |-> <<3, 0, 0, 5>>, exp |-> 3])

\* C6: after import of the scenario directory into a fresh database, table
\* data has the columns Title and Commission_Earned, the numbers 1200.0 and
\* 300.5 in Commission_Earned, and sales --limit 1 gives Widget - 1200.0.
C6_ScenarioImport ==
    (reports = ScenarioDir /\ pc = "idle" /\ cmd = "import" /\ err # TableExists) =>
        /\ db.exists
        /\ db.cols = <<Title, Commission_Earned>>
        /\ db.rows = << <<Text(Widget), Real1200>>, <<Text(Gadget), Real300_5>> >>
        /\ get_top_revenue_generating_products(db, 1) = << <<Text(Widget), Real1200>> >>

\* a coercion that follows a committed one commits
SecondCommit == coerced >= 1 /\ pc = "coerce" /\ pc' = "idle" /\ err' = "ok"

\* C7 as stated: a coercion of columns that were coerced before leaves every
\* value of those columns equal to the number it was.
C7_CoercionIdempotent ==
    [][ SecondCommit =>
          \A i \in 1..Len(db.rows) : \A k \in 1..Len(columns) :
              db'.rows[i][ColumnIndex(db, columns[k])] = db.rows[i][ColumnIndex(db, columns[k])] ]_vars

\* C7 amended: a coercion of columns that were coerced before leaves every
\* number of at most 15 significant digits as it was (a number of more digits
\* is rounded to 15: REPLACE reads the number through its text).
C7_CoercionIdempotentTo15Digits ==
    [][ SecondCommit =>
          \A i \in 1..Len(db.rows) : \A k \in 1..Len(columns) :
              LET x == db.rows[i][ColumnIndex(db, columns[k])]
              IN  (x.type = "real" /\ Len(x.v.digs) <= 15) =>
                      db'.rows[i][ColumnIndex(db, columns[k])] = x ]_vars

\* C7 witness: two coercions are committed and the money read from
\* $1,200.00 is the number 1200.0.
C7_Witness ==
    /\ pc = "idle" /\ coerced = 2 /\ err = "ok"
    /\ db.rows[1][2] = Real1200

\* the text is not a number once "$" and "," are taken out
HasResidue(x) ==
    /\ x.type = "text"
    /\ \E k \in 1..Len(x.v) : x.v[k] \notin NumericChars \cup {"$", ","}

\* the turn of the coercion loop meets a value with residue in its column
CastMeetsResidue ==
    /\ pc = "coerce" /\ column <= Len(columns)
    /\ conn.exists /\ HasColumn(conn, columns[column])
    /\ \E i \in 1..Len(conn.rows) : HasResidue(conn.rows[i][ColumnIndex(conn, columns[column])])

\* the commit of a coercion of a table that holds a value with residue
CommitAfterResidue ==
    /\ pc = "coerce" /\ column > Len(columns)
    /\ \E i \in 1..Len(db.rows) : \E k \in 1..Len(columns) :
          HasResidue(db.rows[i][ColumnIndex(db, columns[k])])

\* C8 as stated: a value with residue makes the cast fail; the coercion ends
\* with an error and nothing coerced is committed.
C8_ResidueFailsCast ==
    [][ /\ CastMeetsResidue => (pc' = "idle" /\ err' \notin {"ok", "none"} /\ db' = db)
        /\ CommitAfterResidue => db' = db ]_vars

\* C8 amended: a value with residue does not make the cast fail: the loop
\* goes on, every value of the column is a number afterwards (0.0 for a text
\* that starts with a letter), and the commit stores the numbers.
C8_ResidueCastsToNumber ==
    [][ /\ CastMeetsResidue =>
              /\ pc' = "coerce" /\ column' = column + 1 /\ err' = err
              /\ \A i \in 1..Len(conn.rows) :
                    LET j == ColumnIndex(conn, columns[column])
                    IN  /\ conn'.rows[i][j].type = "real"
                        /\ conn.rows[i][j] = Text(CommissionEarnedRaw) => conn'.rows[i][j] = RealV(Zero)
        /\ CommitAfterResidue =>
              /\ pc' = "idle" /\ err' = "ok" /\ db' = conn
              /\ \A i \in 1..Len(db.rows) : \A k \in 1..Len(columns) :
                    db'.rows[i][ColumnIndex(db, columns[k])].type = "real" ]_vars

\* C8 witness: the header text of a second file, found in a money column,
\* has been cast to the number 0.0 and the coercion is about to commit.
C8_Witness ==
    /\ CommitAfterResidue
    /\ cmd = "convert" /\ err = "none"
    /\ db.rows[1][2] = Text(CommissionEarnedRaw)
    /\ conn.rows[1][2] = RealV(Zero)

\* C9: delete on a table that exists drops it.
C9_DeleteDropsTable ==
    [][ \A d \in DbNames, n \in TableNames :
          (delete(d, n) /\ wiki[d, n].exists) => ~wiki'[d, n].exists ]_vars

\* C10: an article table holds at most one row whenever it exists (and none
\* when it does not), and an ingest on a table that exists fails at the
\* creation, inserts nothing and leaves every table as it was.
C10_AtMostOneRow ==
    /\ [](\A p \in DbNames \X TableNames :
            /\ Len(wiki[p].rows) <= 1
            /\ ~wiki[p].exists => wiki[p].rows = <<>>)
    /\ [][ \A t \in Titles, d \in DbNames, n \in TableNames :
             (ingest_create(t, d, n) /\ wiki[d, n].exists) =>
                 (wiki' = wiki /\ wpc' = "idle") ]_vars

\* C10 witness: an ingest was refused on a table that holds its one row.
C10_Witness ==
    /\ wpc = "idle" /\ wargs.cmd = "ingest"
    /\ werr = "OperationalError: table already exists"
    /\ Len(wiki[wargs.db_name, wargs.table_name].rows) = 1

====
